---- MODULE Spec2Model ----
(***************************************************************************)
(* Model of misc/scripts/gen_time_quanta.py: the generator of the MLFQ     *)
(* time-quantum table (generate_exponential_quanta), its renderer          *)
(* (print_cpp_array) and the script body that reads the two inputs and     *)
(* calls both.                                                             *)
(*                                                                         *)
(* Numbers.  Python ints are unbounded and the rate is a double.  Both are *)
(* represented exactly as naturals in base 10000, least significant limb   *)
(* first (<<>> is zero); a real number is such a natural scaled by         *)
(* Base^FracLimbs, with a separate sign.  Supplied rates (1.1, 1.15, ...)  *)
(* are exact decimals.  The root of target-max mode is irrational in       *)
(* general: the double the script gets lies next to the real root, on      *)
(* either side of it, so the model takes the two fixed-point neighbours of *)
(* the real root as the possible outcomes (one outcome when the root is    *)
(* exact).  Within the inputs below no double overflows, so the           *)
(* OverflowError of very large level counts does not occur.                *)
(*                                                                         *)
(* GROWTH_RATE and TARGET_MAX are settings written in the script (lines    *)
(* 41-43, "Set a specific multiplier"); a run starts from one of several   *)
(* settings, the shipped one (1.1, None) among them.                       *)
(***************************************************************************)
EXTENDS Integers, Sequences, FiniteSets, TLC

(***************************************************************************)
(* Exact natural-number arithmetic on limb sequences                       *)
(***************************************************************************)
Base == 10000

\* number of limbs after the point in a scaled real (8 decimal digits)
FracLimbs == 2

\* number of limbs searched for a derived rate: the fraction and one limb
\* of integer part (derived rates stay below Base)
RootLimbs == FracLimbs + 1

RECURSIVE Norm(_)
Norm(a) ==
  IF a = <<>> THEN <<>>
  ELSE IF a[Len(a)] = 0 THEN Norm(SubSeq(a, 1, Len(a) - 1)) ELSE a

RECURSIVE FromInt(_)
FromInt(n) ==
  IF n = 0 THEN <<>> ELSE <<n % Base>> \o FromInt(n \div Base)

RECURSIVE ToInt(_)
ToInt(a) ==
  IF a = <<>> THEN 0 ELSE a[1] + Base * ToInt(Tail(a))

Limb(a, k) ==
  IF k >= 1 /\ k <= Len(a) THEN a[k] ELSE 0

Shift(a, k) ==
  IF a = <<>> THEN <<>> ELSE [j \in 1..k |-> 0] \o a

RECURSIVE ColSum(_, _, _, _)
ColSum(a, b, k, j) ==
  IF j > Len(b) THEN 0
  ELSE Limb(a, k - j + 1) * b[j] + ColSum(a, b, k, j + 1)

RECURSIVE Carry(_, _, _)
Carry(cols, k, c) ==
  IF k > Len(cols) THEN FromInt(c)
  ELSE <<(cols[k] + c) % Base>> \o Carry(cols, k + 1, (cols[k] + c) \div Base)

\* a * b, b the short operand (at most 20 limbs)
Mul(a, b) ==
  IF a = <<>> \/ b = <<>> THEN <<>>
  ELSE Norm(Carry([k \in 1..(Len(a) + Len(b) - 1) |-> ColSum(a, b, k, 1)], 1, 0))

RECURSIVE Pow(_, _)
Pow(a, e) ==
  IF e = 0 THEN <<1>> ELSE Mul(Pow(a, e - 1), a)

RECURSIVE Inc(_)
Inc(a) ==
  IF a = <<>> THEN <<1>>
  ELSE IF a[1] < Base - 1 THEN <<a[1] + 1>> \o Tail(a)
  ELSE <<0>> \o Inc(Tail(a))

RECURSIVE LeqFrom(_, _, _)
LeqFrom(a, b, k) ==
  IF k = 0 THEN TRUE
  ELSE IF a[k] # b[k] THEN a[k] < b[k]
  ELSE LeqFrom(a, b, k - 1)

\* a <= b for normalised a, b
Leq(a, b) ==
  IF Len(a) # Len(b) THEN Len(a) < Len(b) ELSE LeqFrom(a, b, Len(a))

Abs(n) == IF n < 0 THEN -n ELSE n

(***************************************************************************)
(* Values of the script: None, numbers, rates                              *)
(***************************************************************************)
\* a rate: absent, a real (sign and magnitude scaled by Base^FracLimbs),
\* or a Python complex (a fractional power of a negative ratio)
NoRate == [kind |-> "none", neg |-> FALSE, mag |-> <<>>]

ComplexRate == [kind |-> "complex", neg |-> FALSE, mag |-> <<>>]

Real(neg, mag) == [kind |-> "real", neg |-> neg /\ mag # <<>>, mag |-> mag]

\* the decimal n/100 as a rate: Hundredths(115) is 1.15
Hundredths(n) ==
  Real(n < 0, Shift(FromInt(Abs(n) * (Base \div 100)), FracLimbs - 1))

\* a target maximum: absent, or the positive rational n/d
NoTarget == [kind |-> "none", n |-> 0, d |-> 1]

Target(n, d) == [kind |-> "num", n |-> n, d |-> d]

(***************************************************************************)
(* generate_exponential_quanta                                             *)
(***************************************************************************)
\* line 8, for a ratio target/start and an exponent 1/e, e # 0: does the
\* candidate rate R (a magnitude scaled by Base^FracLimbs) stay at or below
\* the real value |target/start|^(1/e) ?
AtMostRoot(R, start, target, e) ==
  IF e > 0
  THEN Leq(Mul(Pow(R, e), FromInt(Abs(start) * target.d)),
           Shift(FromInt(Abs(target.n)), FracLimbs * e))
  ELSE Leq(Mul(Pow(R, -e), FromInt(Abs(target.n))),
           Shift(FromInt(Abs(start) * target.d), FracLimbs * (-e)))

\* the largest limb d at position p of R that keeps R at or below the root
RECURSIVE SearchLimb(_, _, _, _, _, _, _)
SearchLimb(R, p, lo, hi, start, target, e) ==
  IF lo = hi THEN lo
  ELSE LET mid == (lo + hi + 1) \div 2
       IN IF AtMostRoot(Norm([R EXCEPT ![p] = mid]), start, target, e)
          THEN SearchLimb(R, p, mid, hi, start, target, e)
          ELSE SearchLimb(R, p, lo, mid - 1, start, target, e)

RECURSIVE SearchFrom(_, _, _, _, _)
SearchFrom(R, p, start, target, e) ==
  IF p = 0 THEN Norm(R)
  ELSE SearchFrom([R EXCEPT ![p] = SearchLimb(R, p, 0, Base - 1, start, target, e)],
                  p - 1, start, target, e)

\* the real root |target/start|^(1/e) cut to FracLimbs limbs after the point
FloorRoot(start, target, e) ==
  SearchFrom([k \in 1..RootLimbs |-> 0], RootLimbs, start, target, e)

\* is the cut root the real root itself ?
ExactRoot(R, start, target, e) ==
  IF e > 0
  THEN Mul(Pow(R, e), FromInt(Abs(start) * target.d))
         = Shift(FromInt(Abs(target.n)), FracLimbs * e)
  ELSE Mul(Pow(R, -e), FromInt(Abs(target.n)))
         = Shift(FromInt(Abs(start) * target.d), FracLimbs * (-e))

\* the root taken with exponent 1 / levels
DerivedRatesOffByOne(levels, start, target) ==
  LET e == levels
      neg == (target.n < 0) # (start < 0)
      R == FloorRoot(start, target, e)
  IN IF neg /\ e \notin {1, -1} THEN {ComplexRate}
     ELSE IF ExactRoot(R, start, target, e) THEN {Real(neg, R)}
     ELSE {Real(neg, R), Real(neg, Inc(R))}

\* line 8: the doubles (target_max_ms / start_ms) ** (1 / (levels - 1)) can
\* be, for start # 0, target > 0, levels # 1
DerivedRates(levels, start, target) ==
  LET e == levels - 1
      neg == (target.n < 0) # (start < 0)
      R == FloorRoot(start, target, e)
  IN IF neg /\ e \notin {1, -1} THEN {ComplexRate}
     ELSE IF ExactRoot(R, start, target, e) THEN {Real(neg, R)}
     ELSE {Real(neg, R), Real(neg, Inc(R))}

\* rate resolution with a supplied growth_rate looked at first
ResolveRateFirst(levels, start, growth_rate, target) ==
  IF growth_rate.kind # "none"
  THEN {[err |-> "none", rate |-> growth_rate, notice |-> "none"]}
  ELSE IF target.kind # "none"
       THEN IF start = 0 \/ levels = 1
            THEN {[err |-> "ZeroDivisionError", rate |-> NoRate, notice |-> "none"]}
            ELSE {[err |-> "none", rate |-> r, notice |-> "calculated"] :
                    r \in DerivedRates(levels, start, target)}
       ELSE {[err |-> "none", rate |-> Hundredths(115), notice |-> "default"]}

\* lines 5-14: the outcomes of rate resolution
\* [err, rate, notice]; notice is the [INFO] line printed, if any
Resolve(levels, start, growth_rate, target) ==
  IF target.kind # "none"
  THEN IF start = 0 \/ levels = 1
       THEN {[err |-> "ZeroDivisionError", rate |-> NoRate, notice |-> "none"]}
       ELSE {[err |-> "none", rate |-> r, notice |-> "calculated"] :
               r \in DerivedRates(levels, start, target)}
  ELSE IF growth_rate.kind = "none"
       THEN {[err |-> "none", rate |-> Hundredths(115), notice |-> "default"]}
       ELSE {[err |-> "none", rate |-> growth_rate, notice |-> "none"]}

\* line 18: val = start_ms * (growth_rate ** i), as sign and magnitude;
\* the magnitude is scaled by Base^(FracLimbs * i)
ValMag(start, rate, i) == Mul(Pow(rate.mag, i), FromInt(Abs(start)))

ValNeg(start, rate, i) ==
  /\ ValMag(start, rate, i) # <<>>
  /\ (start < 0) # (rate.neg /\ i % 2 = 1)

\* rounding with ties away from zero
RoundHalfUp(neg, mag, fl) ==
  LET ip == IF Len(mag) > fl THEN ToInt(SubSeq(mag, fl + 1, Len(mag))) ELSE 0
      m == IF fl >= 1 /\ Limb(mag, fl) >= Base \div 2 THEN ip + 1 ELSE ip
  IN IF neg THEN -m ELSE m

\* Python's round(): nearest integer, ties to the even one; mag has fl limbs
\* after the point
RoundHalfEven(neg, mag, fl) ==
  LET ip == IF Len(mag) > fl THEN ToInt(SubSeq(mag, fl + 1, Len(mag))) ELSE 0
      top == Limb(mag, fl)
      rest == \E k \in 1..(fl - 1) : Limb(mag, k) # 0
      up == fl >= 1 /\ (top > Base \div 2 \/
                        (top = Base \div 2 /\ (rest \/ ip % 2 = 1)))
      m == IF up THEN ip + 1 ELSE ip
  IN IF neg THEN -m ELSE m

\* line 19: round(val) at index i
Quantum(start, rate, i) ==
  RoundHalfEven(ValNeg(start, rate, i), ValMag(start, rate, i), FracLimbs * i)

\* each value put at the front of the list instead of at its end
ExpandReversed(levels, start, rate) ==
  [k \in 1..levels |-> Quantum(start, rate, levels - k)]

\* the loop over range(levels - 1)
ExpandShort(levels, start, rate) ==
  [k \in 1..(levels - 1) |-> Quantum(start, rate, k - 1)]

\* lines 17-19: the loop over range(levels)
Expand(levels, start, rate) ==
  [k \in 1..levels |-> Quantum(start, rate, k - 1)]

\* the whole call: the set of outcomes [err, rate, notice, quanta]
GenerateOutcomes(levels, start, growth_rate, target) ==
  { IF r.err # "none"
      THEN [err |-> r.err, rate |-> r.rate, notice |-> r.notice, quanta |-> <<>>]
    ELSE IF r.rate.kind = "complex" /\ levels >= 1
      THEN [err |-> "TypeError", rate |-> r.rate, notice |-> r.notice, quanta |-> <<>>]
    ELSE [err |-> "none", rate |-> r.rate, notice |-> r.notice,
          quanta |-> Expand(levels, start, r.rate)] :
    r \in Resolve(levels, start, growth_rate, target) }

(***************************************************************************)
(* Text: str(), int() and the lines print_cpp_array prints.  A text is a   *)
(* sequence of pieces: the characters of a formatted number, and the       *)
(* literal parts of a format string as one piece each.                     *)
(***************************************************************************)
Digits == <<"0", "1", "2", "3", "4", "5", "6", "7", "8", "9">>

IsDigit(c) == \E k \in 1..10 : Digits[k] = c

DigitVal(c) == (CHOOSE k \in 1..10 : Digits[k] = c) - 1

RECURSIVE StrNat(_)
StrNat(n) ==
  IF n < 10 THEN <<Digits[n + 1]>>
  ELSE StrNat(n \div 10) \o <<Digits[(n % 10) + 1]>>

\* str(n) of an int
Str(n) == IF n < 0 THEN <<"-">> \o StrNat(-n) ELSE StrNat(n)

\* the digits of a text after its optional sign
Unsigned(tok) ==
  IF tok # <<>> /\ tok[1] \in {"-", "+"} THEN Tail(tok) ELSE tok

\* does int(tok) return (TRUE) or raise ValueError (FALSE) ?
IntOk(tok) ==
  /\ Unsigned(tok) # <<>>
  /\ \A k \in 1..Len(Unsigned(tok)) : IsDigit(Unsigned(tok)[k])

RECURSIVE NatValue(_)
NatValue(ds) ==
  IF ds = <<>> THEN 0
  ELSE 10 * NatValue(SubSeq(ds, 1, Len(ds) - 1)) + DigitVal(ds[Len(ds)])

\* int(tok), for IntOk(tok)
IntValue(tok) ==
  IF tok[1] = "-" THEN -NatValue(Unsigned(tok)) ELSE NatValue(Unsigned(tok))

Min(a, b) == IF a < b THEN a ELSE b

\* line 26
row_size == 8

\* the slice taken one element late
SliceLate(q, a, b) == SubSeq(q, a + 2, Min(b, Len(q)))

\* quanta[a:b], 0 <= a
Slice(q, a, b) == SubSeq(q, a + 1, Min(b, Len(q)))

\* ", ".join(map(str, row))
RECURSIVE Join(_)
Join(row) ==
  IF row = <<>> THEN <<>>
  ELSE IF Len(row) = 1 THEN Str(row[1])
  ELSE Str(row[1]) \o <<", ">> \o Join(Tail(row))

\* line 24
HeaderLine(q) ==
  <<"constexpr int TIME_SLICE_QUANTA[">> \o Str(Len(q)) \o <<"] = {">>

\* the trailing comma decided with <= instead of <
RowLineLeq(q, i) ==
  IF i + row_size <= Len(q)
  THEN <<"    ">> \o Join(Slice(q, i, i + row_size)) \o <<",">>
  ELSE <<"    ">> \o Join(Slice(q, i, i + row_size))

\* lines 28-34: the line printed for the row that starts at index i
RowLine(q, i) ==
  IF i + row_size < Len(q)
  THEN <<"    ">> \o Join(Slice(q, i, i + row_size)) \o <<",">>
  ELSE <<"    ">> \o Join(Slice(q, i, i + row_size))

\* line 36
CloseLine == <<"};">>

(***************************************************************************)
(* Inputs and settings                                                     *)
(***************************************************************************)
\* largest level count typed at the prompt
MaxLevels == 17

\* largest target maximum set in TARGET_MAX
MaxTarget == 40

\* texts typed at the first prompt
LevelInputs == {Str(n) : n \in -1..MaxLevels} \cup {<<"x">>, <<>>}

\* texts typed at the second prompt
QuantaInputs == {Str(n) : n \in {-2, 0, 1, 3, 5, 10}} \cup {<<"1", "x">>}

\* lines 42-43 as shipped
ShippedSettings == [rate |-> Hundredths(110), target |-> NoTarget]

\* lines 42-43 as the script's user may set them
Settings ==
  {ShippedSettings}
  \cup {[rate |-> r, target |-> NoTarget] :
          r \in {NoRate, Hundredths(-110), Hundredths(0), Hundredths(50),
                 Hundredths(100), Hundredths(115), Hundredths(200)}}
  \cup {[rate |-> r, target |-> t] :
          r \in {NoRate, Hundredths(110)},
          t \in {Target(7, 2), Target(MaxTarget, 1)}}

(***************************************************************************)
(* The script                                                              *)
(***************************************************************************)
VARIABLES
  pc,              \* position in the script
  TOTAL_LEVELS,    \* line 38
  INITIAL_QUANTA,  \* line 39
  GROWTH_RATE,     \* line 42
  TARGET_MAX,      \* line 43
  growth_rate,     \* the rate generate_exponential_quanta resolved
  notice,          \* the [INFO] line it printed: "calculated", "default", "none"
  result,          \* line 46
  err,             \* the exception that ended the run, "none" if none
  out,             \* the lines print_cpp_array printed
  i                \* line 27

vars == <<pc, TOTAL_LEVELS, INITIAL_QUANTA, GROWTH_RATE, TARGET_MAX,
          growth_rate, notice, result, err, out, i>>

Init ==
  /\ pc = "read_levels"
  /\ TOTAL_LEVELS = 0
  /\ INITIAL_QUANTA = 0
  /\ \E c \in Settings : GROWTH_RATE = c.rate /\ TARGET_MAX = c.target
  /\ growth_rate = NoRate
  /\ notice = "none"
  /\ result = <<>>
  /\ err = "none"
  /\ out = <<>>
  /\ i = 0

\* line 38: TOTAL_LEVELS = int(input(...))
ReadLevels ==
  /\ pc = "read_levels"
  /\ \E tok \in LevelInputs :
       IF IntOk(tok)
       THEN TOTAL_LEVELS' = IntValue(tok) /\ pc' = "read_quanta" /\ err' = err
       ELSE TOTAL_LEVELS' = TOTAL_LEVELS /\ pc' = "raised" /\ err' = "ValueError"
  /\ UNCHANGED <<INITIAL_QUANTA, GROWTH_RATE, TARGET_MAX, growth_rate, notice,
                 result, out, i>>

\* line 39: INITIAL_QUANTA = int(input(...))
ReadQuanta ==
  /\ pc = "read_quanta"
  /\ \E tok \in QuantaInputs :
       IF IntOk(tok)
       THEN INITIAL_QUANTA' = IntValue(tok) /\ pc' = "generate" /\ err' = err
       ELSE INITIAL_QUANTA' = INITIAL_QUANTA /\ pc' = "raised" /\ err' = "ValueError"
  /\ UNCHANGED <<TOTAL_LEVELS, GROWTH_RATE, TARGET_MAX, growth_rate, notice,
                 result, out, i>>

\* the script going on to print whatever the call did
AfterGenerateAlways(o) == "print_header"

\* where the script goes on after the call of line 46
AfterGenerate(o) == IF o.err = "none" THEN "print_header" ELSE "raised"

\* line 46: result = generate_exponential_quanta(...)
Generate ==
  /\ pc = "generate"
  /\ \E o \in GenerateOutcomes(TOTAL_LEVELS, INITIAL_QUANTA, GROWTH_RATE, TARGET_MAX) :
       /\ growth_rate' = o.rate
       /\ notice' = o.notice
       /\ err' = o.err
       /\ result' = o.quanta
       /\ pc' = AfterGenerate(o)
  /\ UNCHANGED <<TOTAL_LEVELS, INITIAL_QUANTA, GROWTH_RATE, TARGET_MAX, out, i>>

\* line 47, line 24: print_cpp_array prints the declaration
PrintHeader ==
  /\ pc = "print_header"
  /\ out' = Append(out, HeaderLine(result))
  /\ i' = 0
  /\ pc' = "print_rows"
  /\ UNCHANGED <<TOTAL_LEVELS, INITIAL_QUANTA, GROWTH_RATE, TARGET_MAX,
                 growth_rate, notice, result, err>>

\* lines 27-34: one round of the loop over range(0, len(quanta), row_size)
PrintRow ==
  /\ pc = "print_rows"
  /\ i < Len(result)
  /\ out' = Append(out, RowLine(result, i))
  /\ i' = i + row_size
  /\ UNCHANGED <<pc, TOTAL_LEVELS, INITIAL_QUANTA, GROWTH_RATE, TARGET_MAX,
                 growth_rate, notice, result, err>>

\* line 36: the loop is over, print the closing line
PrintClose ==
  /\ pc = "print_rows"
  /\ i >= Len(result)
  /\ out' = Append(out, CloseLine)
  /\ pc' = "done"
  /\ UNCHANGED <<TOTAL_LEVELS, INITIAL_QUANTA, GROWTH_RATE, TARGET_MAX,
                 growth_rate, notice, result, err, i>>

Next ==
  \/ ReadLevels
  \/ ReadQuanta
  \/ Generate
  \/ PrintHeader
  \/ PrintRow
  \/ PrintClose

Spec == Init /\ [][Next]_vars

(***************************************************************************)
(* Properties                                                              *)
(***************************************************************************)
\* the call of line 46 has just ended: it returned (the script is about to
\* print) or it raised
GenerateEnded ==
  \/ pc = "print_header"
  \/ pc = "raised" /\ err # "ValueError"

GenerateReturned == pc = "print_header"

\* 1.0 as a rate magnitude
One == Shift(<<1>>, FracLimbs)

\* the growth rate passed in is a positive number, or absent
RatePositiveOrAbsent ==
  \/ GROWTH_RATE.kind = "none"
  \/ GROWTH_RATE.kind = "real" /\ ~GROWTH_RATE.neg /\ GROWTH_RATE.mag # <<>>

\* (C1) For a level count >= 1, a start quantum > 0, a growth rate that is
\* positive or absent and no target maximum, the call returns, and returns
\* exactly TOTAL_LEVELS values.
C1_LengthIsLevels ==
  (GenerateEnded /\ TOTAL_LEVELS >= 1 /\ INITIAL_QUANTA > 0
     /\ RatePositiveOrAbsent /\ TARGET_MAX = NoTarget)
  => (err = "none" /\ Len(result) = TOTAL_LEVELS)

C1_Witness ==
  /\ GenerateReturned /\ TOTAL_LEVELS = 9 /\ INITIAL_QUANTA > 0
  /\ RatePositiveOrAbsent /\ TARGET_MAX = NoTarget
  /\ Len(result) = 9

\* (C2) For a level count >= 1 and a start quantum > 0, when the rate used
\* is >= 1 the returned sequence is non-decreasing.
C2_NonDecreasing ==
  (GenerateReturned /\ TOTAL_LEVELS >= 1 /\ INITIAL_QUANTA > 0
     /\ growth_rate.kind = "real" /\ ~growth_rate.neg /\ Leq(One, growth_rate.mag))
  => \A a, b \in 1..Len(result) : a < b => result[a] <= result[b]

\* rounding made two neighbouring levels equal in a sequence that grows
C2_Witness ==
  /\ GenerateReturned /\ TOTAL_LEVELS >= 3 /\ INITIAL_QUANTA > 0
  /\ growth_rate.kind = "real" /\ ~growth_rate.neg /\ Leq(One, growth_rate.mag)
  /\ result[2] = result[3]
  /\ result[1] < result[Len(result)]

RECURSIVE Dec(_)
Dec(a) ==
  IF a[1] > 0 THEN Norm(<<a[1] - 1>> \o Tail(a))
  ELSE <<Base - 1>> \o Dec(Tail(a))

\* R is a fixed-point neighbour of the real number
\* |TARGET_MAX / INITIAL_QUANTA| ^ (1 / (TOTAL_LEVELS - 1))
NextToRoot(R) ==
  LET e == TOTAL_LEVELS - 1
  IN IF AtMostRoot(R, INITIAL_QUANTA, TARGET_MAX, e)
     THEN ~AtMostRoot(Inc(R), INITIAL_QUANTA, TARGET_MAX, e)
     ELSE R # <<>> /\ AtMostRoot(Dec(R), INITIAL_QUANTA, TARGET_MAX, e)

\* (C3) When the call returns, the rate it used is: with a target maximum,
\* the root derived from it, whatever growth rate was passed; else the
\* growth rate passed, unchanged; else 1.15. The notice printed tells the
\* three cases apart.
C3_RatePriority ==
  GenerateReturned =>
    /\ TARGET_MAX # NoTarget =>
         /\ notice = "calculated"
         /\ growth_rate.kind \in {"real", "complex"}
         /\ growth_rate.kind = "real" => NextToRoot(growth_rate.mag)
         /\ growth_rate.kind = "complex" =>
              /\ INITIAL_QUANTA < 0
              /\ TOTAL_LEVELS - 1 \notin {1, -1}
    /\ (TARGET_MAX = NoTarget /\ GROWTH_RATE # NoRate) =>
         notice = "none" /\ growth_rate = GROWTH_RATE
    /\ (TARGET_MAX = NoTarget /\ GROWTH_RATE = NoRate) =>
         notice = "default" /\ growth_rate = Hundredths(115)

\* a target maximum and a growth rate were both passed, and the rate used
\* is not the growth rate
C3_Witness ==
  /\ GenerateReturned /\ TOTAL_LEVELS >= 3 /\ INITIAL_QUANTA > 0
  /\ TARGET_MAX # NoTarget /\ GROWTH_RATE # NoRate
  /\ growth_rate # GROWTH_RATE
  /\ notice = "calculated"

\* target-max mode on valid input
TargetMode ==
  /\ TARGET_MAX # NoTarget
  /\ TOTAL_LEVELS >= 2
  /\ INITIAL_QUANTA > 0

\* the last raw value start * rate^(levels-1) is within 0.5 of the target:
\* (2n - d) * S^e <= 2 * d * start * R^e <= (2n + d) * S^e
LastRawNearTarget ==
  LET e == TOTAL_LEVELS - 1
      raw2d == Mul(Pow(growth_rate.mag, e), FromInt(2 * TARGET_MAX.d * INITIAL_QUANTA))
  IN /\ ~growth_rate.neg
     /\ Leq(Shift(FromInt(2 * TARGET_MAX.n - TARGET_MAX.d), FracLimbs * e), raw2d)
     /\ Leq(raw2d, Shift(FromInt(2 * TARGET_MAX.n + TARGET_MAX.d), FracLimbs * e))

\* round(TARGET_MAX), ties to the even integer
RoundedTarget ==
  LET q == TARGET_MAX.n \div TARGET_MAX.d
      r2 == 2 * (TARGET_MAX.n % TARGET_MAX.d)
  IN IF r2 > TARGET_MAX.d \/ (r2 = TARGET_MAX.d /\ q % 2 = 1) THEN q + 1 ELSE q

C5_OneLevelTargetInvalidParameter ==
  (GenerateEnded /\ TOTAL_LEVELS = 1 /\ TARGET_MAX # NoTarget)
  => err = "InvalidParameter"

\* (C6) The call fails with InvalidParameter, and returns nothing, when the
\* level count is < 1, the start quantum is <= 0 or the rate used is <= 0.
C6_InvalidInputsRejected ==
  (GenerateEnded
     /\ \/ TOTAL_LEVELS < 1
        \/ INITIAL_QUANTA <= 0
        \/ growth_rate.kind = "real" /\ (growth_rate.neg \/ growth_rate.mag = <<>>))
  => (err = "InvalidParameter" /\ pc = "raised")

\* (C7) A run that ends in an error has printed no line of the
\* declaration, and print_cpp_array is not running or done in it.
C7_NoOutputBeforeError ==
  err # "none" => (out = <<>> /\ pc = "raised")

\* the call raised after its notice was printed, and nothing of the table
\* was printed
C7_Witness ==
  /\ pc = "raised"
  /\ err = "TypeError"
  /\ notice = "calculated"
  /\ out = <<>>

\* the lines between the declaration and the closing line
Rows == SubSeq(out, 2, Len(out) - 1)

\* the number of values on a printed row
ValuesOn(line) == Cardinality({k \in 1..Len(line) : line[k] = ", "}) + 1

\* (C8) Once printed, the n values are on (n + 7) \div 8 rows, 8 on every
\* row but the last, which holds the rest; a row ends with a comma exactly
\* when it is not the last one.
C8_RowsOfEight ==
  pc = "done" =>
    /\ Len(Rows) = (Len(result) + row_size - 1) \div row_size
    /\ \A r \in 1..Len(Rows) :
         /\ ValuesOn(Rows[r]) =
              IF r < Len(Rows) THEN row_size
              ELSE Len(result) - row_size * (Len(Rows) - 1)
         /\ (Rows[r][Len(Rows[r])] = ",") <=> (r < Len(Rows))
    /\ Len(result) = row_size =>
         Len(Rows) = 1 /\ Rows[1][Len(Rows[1])] # ","
    /\ Len(result) = row_size + 1 =>
         /\ Len(Rows) = 2
         /\ Rows[1][Len(Rows[1])] = ","
         /\ Rows[2][Len(Rows[2])] # ","

\* nine values: a full row with its comma, then a row of one
C8_Witness ==
  /\ pc = "done"
  /\ Len(result) = row_size + 1
  /\ Len(Rows) = 2
  /\ ValuesOn(Rows[1]) = row_size
  /\ Rows[1][Len(Rows[1])] = ","

\* the integers written on a row, read from its pieces
RECURSIVE ReadRow(_, _)
ReadRow(pieces, cur) ==
  IF pieces = <<>>
  THEN IF cur = <<>> THEN <<>> ELSE <<IntValue(cur)>>
  ELSE IF pieces[1] \in {", ", ","}
       THEN <<IntValue(cur)>> \o ReadRow(Tail(pieces), <<>>)
       ELSE ReadRow(Tail(pieces), Append(cur, pieces[1]))

\* the integers written on rows r.., top to bottom
RECURSIVE ReadRows(_)
ReadRows(lines) ==
  IF lines = <<>> THEN <<>>
  ELSE ReadRow(Tail(lines[1]), <<>>) \o ReadRows(Tail(lines))

\* (C9) For a sequence of any length, the empty one included, printing goes
\* on to its end without an error; the size written in the declaration is
\* the length, and the rows read back give the sequence itself.
C9_PrintKeepsValues ==
  /\ pc \in {"print_header", "print_rows"} =>
       (err = "none" /\ ENABLED (PrintHeader \/ PrintRow \/ PrintClose))
  /\ pc = "done" =>
       /\ err = "none"
       /\ Len(out) >= 2
       /\ out[1][1] = "constexpr int TIME_SLICE_QUANTA["
       /\ out[1][Len(out[1])] = "] = {"
       /\ IntOk(SubSeq(out[1], 2, Len(out[1]) - 1))
       /\ IntValue(SubSeq(out[1], 2, Len(out[1]) - 1)) = Len(result)
       /\ \A r \in 1..Len(Rows) : Rows[r][1] = "    "
       /\ ReadRows(Rows) = result
       /\ out[Len(out)] = CloseLine
       /\ result = <<>> => out = <<HeaderLine(<<>>), CloseLine>>

\* the empty sequence, printed as a declaration of size 0 and the closing
\* line
C9_Witness ==
  /\ pc = "done"
  /\ result = <<>>
  /\ out = << <<"constexpr int TIME_SLICE_QUANTA[", "0", "] = {">>, <<"};">> >>

\* q is a nearest integer to the real of sign neg and magnitude
\* mag / Base^fl, and the even one of the two nearest in a tie
NearestEven(q, neg, mag, fl) ==
  LET lo == Shift(FromInt(2 * Abs(q) - 1), fl)
      hi == Shift(FromInt(2 * Abs(q) + 1), fl)
      twice == Mul(mag, <<2>>)
  IN /\ (q < 0 => neg) /\ (q > 0 => ~neg)
     /\ q # 0 => Leq(lo, twice)
     /\ Leq(twice, hi)
     /\ (twice = hi \/ (q # 0 /\ twice = lo)) => q % 2 = 0

====
